---------------------------- MODULE Spec2Model ----------------------------
(***************************************************************************)
(* Model of scripts/build_courses.py: the name canonicalizer, the          *)
(* haversine distance, the two dedup policies (dedupe_courses and          *)
(* dedupe_courses_ranked), the Overpass element extraction and the         *)
(* Geofabrik feature classifier / handlers.                                *)
(*                                                                         *)
(* Representation.                                                         *)
(*  - A Python str that the code inspects character by character (a        *)
(*    course name, a meta) is a sequence of one-character strings.  A str  *)
(*    that is only compared with literals (a tag key, an element type, a   *)
(*    classification tag value) is a TLA+ string.                          *)
(*  - A latitude / longitude is an integer number of 1e-5 degrees: every   *)
(*    record that reaches a dedup function was rounded with round(x, 5).   *)
(*  - A distance is an integer number of millimetres.                      *)
(*  - A similarity ratio is an integer number of 1/10000.                  *)
(***************************************************************************)
EXTENDS Integers, Sequences, FiniteSets, TLC

VARIABLES
    \* ---- dedupe_courses (Policy A) ----
    courses,    \* the argument of the current dedupe_courses call
    i,          \* 1-based position of the for loop in courses
    kept,       \* the local list kept
    buckets,    \* the local dict buckets: <<gx, gy>> -> list of indices in kept
    pc,         \* "loop" | "done" : position inside the current call
    run,        \* 1: call on the source list, 2: call on the first call's result
    src,        \* the list given to the first call
    first,      \* the value returned by the first call (<<>> until it returns)
    result,     \* the value returned by the current call (<<>> until it returns)
    \* ---- dedupe_courses_ranked (Policy B) ----
    records,    \* the argument of the current dedupe_courses_ranked call
    by_name,    \* the local dict by_name, in insertion order: <<key, items>> pairs
    g,          \* 1-based position of the loop over by_name.items()
    items,      \* the sorted items of the current group
    j,          \* 1-based position of the loop over items
    keptB,      \* the local list kept of the current group
    out,        \* the local list out
    pcB,        \* "idle" | "start" | "groups" | "greedy" | "done"
    runB,       \* 1: first call, 2: call on the same records in another order
    srcB,       \* the list given to the first call
    firstB,     \* the value returned by the first call
    \* ---- extract_courses ----
    elements,   \* overpass_json["elements"]
    e,          \* 1-based position of the for loop in elements
    raw,        \* the local list raw
    pcX,        \* "idle" | "loop" | "raised" | "dedupe"
    \* ---- Handler (build_country_geofabrik) ----
    hrecords,   \* Handler.records
    hcount,     \* number of callbacks apply_file has made
    pcH,        \* "idle" | "apply" | "raised" | "done"
    last,       \* the last callback: its feature, the classification decision
                \* (-1 not reached, 0 reject, 1..3 rank) and what became of it
    \* ---- overpass_query ----
    cache,      \* the cache file cp: "absent" | "valid" | "corrupt"
    calls,      \* number of overpass_query calls made
    use_cache,  \* the argument of the current call
    pcQ,        \* "off" (the run does not use Overpass) | "idle" | "loop" |
                \* "exhausted" | "returned" | "raised"
    endpoint,   \* index into OVERPASS_ENDPOINTS of the outer loop
    attempt,    \* attempt of the inner loop
    posts,      \* number of HTTP requests the current call has made
    parsed,     \* which of them was the first whose response parsed as
                \* JSON, 0 when none has
    last_err,   \* last_err: "None" | "URLError" | "JSONDecodeError" | "OSError"
    outcomeQ    \* "none" | "cached" | "fetched" | "JSONDecodeError" | "RuntimeError"

varsA == <<courses, i, kept, buckets, pc, run, src, first, result>>

varsB == <<records, by_name, g, items, j, keptB, out, pcB, runB, srcB, firstB>>

varsX == <<elements, e, raw, pcX>>

varsH == <<hrecords, hcount, pcH, last>>

varsQ == <<cache, calls, use_cache, pcQ, endpoint, attempt, posts, parsed, last_err, outcomeQ>>

vars == <<varsA, varsB, varsX, varsH, varsQ>>

-----------------------------------------------------------------------------
(* Characters and strings                                                  *)

Digits == <<"0", "1", "2", "3", "4", "5", "6", "7", "8", "9">>
Upper == <<"A", "B", "C", "D", "E", "F", "G", "H", "I", "J", "K", "L", "M",
           "N", "O", "P", "Q", "R", "S", "T", "U", "V", "W", "X", "Y", "Z">>
LowerCh == <<"a", "b", "c", "d", "e", "f", "g", "h", "i", "j", "k", "l", "m",
             "n", "o", "p", "q", "r", "s", "t", "u", "v", "w", "x", "y", "z">>

\* The characters of the model in code point order (space 32, ' 39, - 45,
\* . 46, digits 48.., upper case 65.., lower case 97..).
Ascii == <<" ", "'", "-", ".">> \o Digits \o Upper \o LowerCh

CharSet == {Ascii[n] : n \in DOMAIN Ascii}

\* Rank of a character in code point order (str comparison only needs order).
Ord == [c \in CharSet |-> CHOOSE n \in DOMAIN Ascii : Ascii[n] = c]

\* str.lower() on one character.
ToLower(c) ==
    IF \E n \in DOMAIN Upper : Upper[n] = c
    THEN LowerCh[CHOOSE n \in DOMAIN Upper : Upper[n] = c]
    ELSE c

\* str.lower()
StrLower(s) == [n \in DOMAIN s |-> ToLower(s[n])]

\* \s in the model's alphabet
IsSpace(c) == c = " "

\* a < b for two Python strs (lexicographic by code point)
RECURSIVE StrLess(_, _)
StrLess(a, b) ==
    IF b = <<>> THEN FALSE
    ELSE IF a = <<>> THEN TRUE
    ELSE IF Ord[a[1]] < Ord[b[1]] THEN TRUE
    ELSE IF Ord[a[1]] > Ord[b[1]] THEN FALSE
    ELSE StrLess(Tail(a), Tail(b))

\* str.strip()
RECURSIVE LStrip(_)
LStrip(s) == IF s # <<>> /\ IsSpace(s[1]) THEN LStrip(Tail(s)) ELSE s

RECURSIVE RStrip(_)
RStrip(s) ==
    IF s # <<>> /\ IsSpace(s[Len(s)]) THEN RStrip(SubSeq(s, 1, Len(s) - 1)) ELSE s

Strip(s) == RStrip(LStrip(s))

\* re.sub(r"\s+", " ", s): every run of whitespace becomes one space
RECURSIVE CollapseSpaces(_)
CollapseSpaces(s) ==
    IF Len(s) < 2 THEN s
    ELSE IF IsSpace(s[1]) /\ IsSpace(s[2]) THEN CollapseSpaces(Tail(s))
    ELSE <<s[1]>> \o CollapseSpaces(Tail(s))

\* [a-z0-9 ]
IsKeyChar(c) ==
    \/ \E n \in DOMAIN LowerCh : LowerCh[n] = c
    \/ \E n \in DOMAIN Digits : Digits[n] = c
    \/ c = " "

_normalize_name(name) == CollapseSpaces(Strip(name))

_name_key(name) ==
    Strip(CollapseSpaces(SelectSeq(StrLower(_normalize_name(name)), IsKeyChar)))


-----------------------------------------------------------------------------
(* difflib.SequenceMatcher(None, a, b).ratio() for strings shorter than    *)
(* 200 characters (no junk, no "popular" elements).                        *)

Max(S) == CHOOSE x \in S : \A y \in S : y <= x
Min(S) == CHOOSE x \in S : \A y \in S : x <= y
Abs(x) == IF x < 0 THEN -x ELSE x

\* Length of the longest common prefix of a[p..ahi] and b[q..bhi].
RECURSIVE CommonPrefix(_, _, _, _, _, _)
CommonPrefix(a, b, p, ahi, q, bhi) ==
    IF p > ahi \/ q > bhi \/ a[p] # b[q] THEN 0
    ELSE 1 + CommonPrefix(a, b, p + 1, ahi, q + 1, bhi)

\* find_longest_match(alo, ahi, blo, bhi) on the 1-based inclusive ranges
\* a[alo..ahi], b[blo..bhi]: the longest block a[p..p+k-1] = b[q..q+k-1];
\* of all longest blocks the one that starts earliest in a, and of those
\* the one that starts earliest in b.  <<p, q, k>>, k = 0 when none.
find_longest_match(a, b, alo, ahi, blo, bhi) ==
    LET blocks == {<<p, q, CommonPrefix(a, b, p, ahi, q, bhi)>> :
                       p \in alo..ahi, q \in blo..bhi}
        k      == Max({t[3] : t \in blocks} \cup {0})
        longest == {t \in blocks : t[3] = k}
        p0     == Min({t[1] : t \in longest})
        q0     == Min({t[2] : t \in {u \in longest : u[1] = p0}})
    IN  IF k = 0 THEN <<alo, blo, 0>> ELSE <<p0, q0, k>>

\* Sum of the sizes of get_matching_blocks(): the longest match, then
\* recursively the pieces to its left and to its right.
RECURSIVE MatchingSize(_, _, _, _, _, _)
MatchingSize(a, b, alo, ahi, blo, bhi) ==
    IF alo > ahi \/ blo > bhi THEN 0
    ELSE LET m == find_longest_match(a, b, alo, ahi, blo, bhi)
         IN  IF m[3] = 0 THEN 0
             ELSE m[3]
                  + MatchingSize(a, b, alo, m[1] - 1, blo, m[2] - 1)
                  + MatchingSize(a, b, m[1] + m[3], ahi, m[2] + m[3], bhi)

\* ratio() = 2.0 * matches / (len(a) + len(b)), 1.0 when both are empty;
\* in 1/10000, rounded down (so ratio < 0.88 iff RatioE4 < 8800).
RatioE4(a, b) ==
    IF Len(a) + Len(b) = 0 THEN 10000
    ELSE (20000 * MatchingSize(a, b, 1, Len(a), 1, Len(b))) \div (Len(a) + Len(b))

_similar(a, b) == RatioE4(a, b)

-----------------------------------------------------------------------------
(* _haversine_m in fixed point.                                            *)
(* For separations below one degree the haversine formula                  *)
(*   a = sin^2(dphi/2) + cos(phi1) cos(phi2) sin^2(dl/2), d = 2 R asin(sqrt a) *)
(* equals R sqrt(dphi^2 + cos(phi1) cos(phi2) dl^2) to better than 1e-4    *)
(* relative; that is what is computed here, in integers.                   *)

\* math.cos(math.radians(lat)) in 1/1000, for the latitudes of the model
\* (|lat| in [0, 1.0), [39.8, 39.9), [60.0, 60.1) and [95.0, 95.1) degrees;
\* the last is no latitude, but extract_courses lets it through).
CosMilli(lat) ==
    LET tenth == Abs(lat) \div 10000
    IN  CASE tenth \in 0..9 -> 1000
          [] tenth = 398 -> 768
          [] tenth = 600 -> 500
          [] tenth = 950 -> -87

\* floor(sqrt(n)) by bisection; lo*lo <= n < hi*hi
RECURSIVE IsqrtIter(_, _, _)
IsqrtIter(n, lo, hi) ==
    IF hi - lo <= 1 THEN lo
    ELSE LET mid == (lo + hi) \div 2
         IN  IF mid * mid <= n THEN IsqrtIter(n, mid, hi) ELSE IsqrtIter(n, lo, mid)

Isqrt(n) == IsqrtIter(n, 0, 46341)

\* int() of a quotient: rounds toward zero
TruncDiv(x, d) == IF x >= 0 THEN x \div d ELSE -((-x) \div d)

\* Distance in mm of a separation (dlat, dlon) in 1e-5 degrees, cp =
\* cos(phi1) cos(phi2) in 1/1000.  One 1e-5 degree of latitude is
\* R * pi / 180 * 1e-5 = 1.1119493 m, so d = sqrt(1000 dlat^2 + cp dlon^2)
\* * 1111.9493 / sqrt(1000) mm = sqrt(...) * 35.163 mm.  Separations above
\* 1000 units are computed on a ten times coarser grid (32-bit integers).
RECURSIVE PlanarMm(_, _, _)
PlanarMm(dlat, dlon, cp) ==
    IF Abs(dlat) <= 1000 /\ Abs(dlon) <= 1000
    THEN (Isqrt(1000 * dlat * dlat + cp * dlon * dlon) * 35163) \div 1000
    ELSE 10 * PlanarMm(TruncDiv(dlat, 10), TruncDiv(dlon, 10), cp)

\* Two points of the model more than one degree (100000 units) apart are
\* more than 50 km apart; the value given for them, 50 km, is a lower bound
\* that lies beyond every distance threshold of the code.
_haversine_m(lat1, lon1, lat2, lon2) ==
    IF Abs(lat2 - lat1) > 100000 \/ Abs(lon2 - lon1) > 100000 THEN 50000000
    ELSE PlanarMm(lat2 - lat1, lon2 - lon1,
                  (CosMilli(lat1) * CosMilli(lat2)) \div 1000)


-----------------------------------------------------------------------------
(* Inputs of dedupe_courses: records [name, lat, lon, meta].               *)

\* "Abcd", "abc-de" (keys abcd / abcde, ratio 8/9 in both directions),
\* "Babcaabac", "bacaabcac" (ratio 6/9 one way, 8/9 the other way).
NmAbcd == <<"A", "b", "c", "d">>
NmAbcDe == <<"a", "b", "c", "-", "d", "e">>
NmBab == <<"B", "a", "b", "c", "a", "a", "b", "a", "c">>
NmBac == <<"b", "a", "c", "a", "a", "b", "c", "a", "c">>
NmPineValleyGC ==
    <<"P", "i", "n", "e", " ", "V", "a", "l", "l", "e", "y", " ", "G", "C">>
NmPineValleyGolfClub ==
    <<"P", "i", "n", "e", " ", "V", "a", "l", "l", "e", "y", " ",
      "G", "o", "l", "f", " ", "C", "l", "u", "b">>

\* Positions <<lat, lon>> in 1e-5 degrees.  PosE0, PosE1: 12 m apart
\* (39.80000,-74.93000 / 39.80010,-74.93005); PosE2: 211 m north of PosE1,
\* in the next grid cell; PosN0, PosN1: 122 m apart east-west at 60 N.
PosE0 == <<3980000, -7493000>>
PosE1 == <<3980010, -7493005>>
PosE2 == <<3980200, -7493000>>
PosN0 == <<6000000, 1000190>>
PosN1 == <<6000000, 1000410>>

Rec(name, pos, meta) == <<name, pos[1], pos[2], meta>>

\* meta strings
NoMeta == <<>>
MetaNJ == <<"N", "J">>
MetaNY == <<"N", "Y">>

PoolA == {
    Rec(NmAbcd, PosE0, NoMeta), Rec(NmAbcd, PosE0, MetaNJ),
    Rec(NmAbcDe, PosE1, NoMeta), Rec(NmAbcDe, PosE1, MetaNY),
    Rec(NmAbcd, PosE2, MetaNJ),
    Rec(NmBab, PosE1, MetaNJ), Rec(NmBac, PosE0, NoMeta),
    Rec(NmAbcd, PosN0, NoMeta), Rec(NmAbcd, PosN1, MetaNJ),
    Rec(NmPineValleyGC, PosE0, MetaNJ), Rec(NmPineValleyGolfClub, PosE1, NoMeta) }

\* Longest input list of a dedup call.
MaxLen == 3

SeqsUpTo(S, n) == UNION {[1..m -> S] : m \in 0..n}

-----------------------------------------------------------------------------
(* dedupe_courses (Policy A)                                               *)

\* grid = 0.002 degrees, in 1e-5 degrees
GridUnits == 200
\* dist > 150.0, in mm
MergeDistMm == 150000
\* _similar(...) < 0.88, in 1/10000
MinSimilarityE4 == 8800

\* Coordinates x of the model, multiples of the grid, for which the IEEE
\* double quotient x / 0.002 is just below the integer (39.8 / 0.002 =
\* 19899.999999999996), so that int() yields one less.  The other
\* multiples of the grid in the model (39.802, -74.93, 60.0) divide exactly.
QuotientBelow == {3980000}

GridIndex(x) == TruncDiv(x, GridUnits) - (IF x \in QuotientBelow THEN 1 ELSE 0)

bucket(lat, lon) == <<GridIndex(lat), GridIndex(lon)>>

\* c[3] if len(c) > 3 else ""
MetaOf(c) == IF Len(c) > 3 THEN c[4] ELSE <<>>

\* buckets.get(key, [])
BucketGet(b, key) == IF key \in DOMAIN b THEN b[key] ELSE <<>>

\* dx, dy of the nested loops, in iteration order
Offsets == <<-1, 0, 1>>
Neighbourhood ==
    [n \in 1..9 |-> <<Offsets[((n - 1) \div 3) + 1], Offsets[((n - 1) % 3) + 1]>>]

\* candidates of the record at bucket <<bx, by>>: the concatenation of the
\* nine bucket lists in loop order
RECURSIVE CandidatesFrom(_, _, _, _)
CandidatesFrom(b, bx, by, n) ==
    IF n > 9 THEN <<>>
    ELSE BucketGet(b, <<bx + Neighbourhood[n][1], by + Neighbourhood[n][2]>>)
         \o CandidatesFrom(b, bx, by, n + 1)

Candidates(b, bx, by) == CandidatesFrom(b, bx, by, 1)

\* Matches without the distance test.
MatchesAnyDistance(c, k) ==
    ~(_similar(_name_key(c[1]), _name_key(k[1])) < MinSimilarityE4)

\* The two tests of the inner loop: survivor k takes the incoming record c.
Matches(c, k) ==
    /\ ~(_haversine_m(c[2], c[3], k[2], k[3]) > MergeDistMm)
    /\ ~(_similar(_name_key(c[1]), _name_key(k[1])) < MinSimilarityE4)

\* Position in cands of the first candidate that matches c, 0 when none.
RECURSIVE FirstMatch(_, _, _, _)
FirstMatch(c, ks, cands, n) ==
    IF n > Len(cands) THEN 0
    ELSE IF Matches(c, ks[cands[n]]) THEN n
    ELSE FirstMatch(c, ks, cands, n + 1)

\* An absorption that always takes the incoming meta.
AbsorbIntoOverwrite(k, m) == IF m # <<>> THEN <<k[1], k[2], k[3], m>> ELSE k

\* kept[idx] after it absorbed a record with meta m
AbsorbInto(k, m) == IF k[4] = <<>> /\ m # <<>> THEN <<k[1], k[2], k[3], m>> ELSE k

\* list.sort(key=lambda r: r[0].lower()): stable, ascending
RECURSIVE InsertByLabel(_, _)
InsertByLabel(s, r) ==
    IF s = <<>> THEN <<r>>
    ELSE IF StrLess(StrLower(r[1]), StrLower(s[1][1])) THEN <<r>> \o s
    ELSE <<s[1]>> \o InsertByLabel(Tail(s), r)

RECURSIVE SortFrom(_, _, _)
SortFrom(s, n, acc) ==
    IF n > Len(s) THEN acc ELSE SortFrom(s, n + 1, InsertByLabel(acc, s[n]))

\* A sort by the label as written, without .lower()
RECURSIVE InsertCaseSensitive(_, _)
InsertCaseSensitive(s, r) ==
    IF s = <<>> THEN <<r>>
    ELSE IF StrLess(r[1], s[1][1]) THEN <<r>> \o s
    ELSE <<s[1]>> \o InsertCaseSensitive(Tail(s), r)

RECURSIVE SortCaseSensitiveFrom(_, _, _)
SortCaseSensitiveFrom(s, n, acc) ==
    IF n > Len(s) THEN acc
    ELSE SortCaseSensitiveFrom(s, n + 1, InsertCaseSensitive(acc, s[n]))

SortCaseSensitive(s) == SortCaseSensitiveFrom(s, 1, <<>>)

SortByLabel(s) == SortFrom(s, 1, <<>>)

\* dedupe_courses is called with the list cs.
CallA(cs) ==
    /\ courses = cs
    /\ src = cs
    /\ i = 1
    /\ kept = <<>>
    /\ buckets = <<>>
    /\ pc = "loop"
    /\ run = 1
    /\ first = <<>>
    /\ result = <<>>

\* No dedupe_courses call is in progress.
IdleA ==
    /\ courses = <<>>
    /\ src = <<>>
    /\ i = 1
    /\ kept = <<>>
    /\ buckets = <<>>
    /\ pc = "idle"
    /\ run = 1
    /\ first = <<>>
    /\ result = <<>>

\* One iteration of the for loop in which a survivor absorbs courses[i].
Absorb ==
    /\ pc = "loop"
    /\ i <= Len(courses)
    /\ LET c     == courses[i]
           b     == bucket(c[2], c[3])
           cands == Candidates(buckets, b[1], b[2])
           n     == FirstMatch(c, kept, cands, 1)
       IN  /\ n # 0
           /\ kept' = [kept EXCEPT ![cands[n]] = AbsorbInto(@, MetaOf(c))]
    /\ i' = i + 1
    /\ UNCHANGED <<courses, buckets, pc, run, src, first, result>>
    /\ UNCHANGED <<varsB, varsX, varsH, varsQ>>

\* One iteration of the for loop in which courses[i] becomes a survivor.
Keep ==
    /\ pc = "loop"
    /\ i <= Len(courses)
    /\ LET c     == courses[i]
           b     == bucket(c[2], c[3])
           cands == Candidates(buckets, b[1], b[2])
       IN  /\ FirstMatch(c, kept, cands, 1) = 0
           /\ kept' = Append(kept, <<c[1], c[2], c[3], MetaOf(c)>>)
           /\ buckets' = [key \in DOMAIN buckets \cup {b} |->
                             IF key = b THEN Append(BucketGet(buckets, b), Len(kept) + 1)
                             ELSE buckets[key]]
    /\ i' = i + 1
    /\ UNCHANGED <<courses, pc, run, src, first, result>>
    /\ UNCHANGED <<varsB, varsX, varsH, varsQ>>

\* The loop is over: kept.sort(...); return kept
Return ==
    /\ pc = "loop"
    /\ i > Len(courses)
    /\ kept' = SortByLabel(kept)
    /\ result' = kept'
    /\ pc' = "done"
    /\ UNCHANGED <<courses, i, buckets, run, src, first>>
    /\ UNCHANGED <<varsB, varsX, varsH, varsQ>>

\* The caller runs dedupe_courses again, on the list it returned.
RunAgain ==
    /\ pc = "done"
    /\ run = 1
    /\ pcX = "idle"
    /\ first' = result
    /\ courses' = result
    /\ run' = 2
    /\ i' = 1
    /\ kept' = <<>>
    /\ buckets' = <<>>
    /\ result' = <<>>
    /\ pc' = "loop"
    /\ UNCHANGED src
    /\ UNCHANGED <<varsB, varsX, varsH, varsQ>>

NextA == Absorb \/ Keep \/ Return \/ RunAgain

-----------------------------------------------------------------------------
(* dedupe_courses_ranked (Policy B): records [name, lat, lon, meta, rank,  *)
(* area_m2]                                                                *)

NmPine == <<"P", "i", "n", "e">>
NmPINE == <<"P", "I", "N", "E">>
NmPi_ne == <<"P", "i", "-", "n", "e">>
NmOak == <<"O", "a", "k">>
MetaES == <<"E", "S">>
MetaPT == <<"P", "T">>

\* PosQ1 is 556 m north of PosQ0, PosQ2 556 m north of PosQ1.
PosQ0 == <<3980000, -7493000>>
PosQ1 == <<3980500, -7493000>>
PosQ2 == <<3981000, -7493000>>

RecB(name, pos, meta, rank, area) == <<name, pos[1], pos[2], meta, rank, area>>

PoolB == {
    RecB(NmPine, PosQ0, MetaES, 3, 500),
    RecB(NmPine, PosQ1, MetaES, 2, 10000000),
    RecB(NmPINE, PosQ0, MetaES, 3, 500),
    RecB(NmPine, PosQ0, MetaPT, 3, 500),
    RecB(NmPine, PosQ2, MetaES, 2, 500),
    RecB(NmPi_ne, PosQ1, MetaES, 3, 500),
    RecB(NmOak, PosQ0, MetaES, 1, 0) }

\* Longest input list of a dedupe_courses_ranked call.
MaxRecords == 3

\* _haversine_m(...) <= 1000.0, in mm
ClusterDistMm == 1000000

\* by_name.setdefault(nk, []).append(r) for every record, in order
RECURSIVE GroupFrom(_, _, _)
GroupFrom(rs, n, acc) ==
    IF n > Len(rs) THEN acc
    ELSE LET r  == rs[n]
             nk == _name_key(r[1])
         IN  IF \E m \in DOMAIN acc : acc[m][1] = nk
             THEN GroupFrom(rs, n + 1,
                      [m \in DOMAIN acc |->
                          IF acc[m][1] = nk THEN <<nk, Append(acc[m][2], r)>>
                          ELSE acc[m]])
             ELSE GroupFrom(rs, n + 1, Append(acc, <<nk, <<r>>>>))

\* (-int(r[4]), -float(r[5] or 0.0), r[0].lower(), r[1], r[2]) of r is less
\* than that of s
RankedKeyLess(r, s) ==
    IF -r[5] # -s[5] THEN -r[5] < -s[5]
    ELSE IF -r[6] # -s[6] THEN -r[6] < -s[6]
    ELSE IF StrLower(r[1]) # StrLower(s[1]) THEN StrLess(StrLower(r[1]), StrLower(s[1]))
    ELSE IF r[2] # s[2] THEN r[2] < s[2]
    ELSE r[3] < s[3]

\* items.sort(key=...): stable, ascending
RECURSIVE InsertRanked(_, _)
InsertRanked(s, r) ==
    IF s = <<>> THEN <<r>>
    ELSE IF RankedKeyLess(r, s[1]) THEN <<r>> \o s
    ELSE <<s[1]>> \o InsertRanked(Tail(s), r)

RECURSIVE SortRankedFrom(_, _, _)
SortRankedFrom(s, n, acc) ==
    IF n > Len(s) THEN acc ELSE SortRankedFrom(s, n + 1, InsertRanked(acc, s[n]))

SortRanked(s) == SortRankedFrom(s, 1, <<>>)

\* A search that compares r with the first survivor only.
FirstWithinFirstOnly(r, ks, n) ==
    IF ks # <<>> /\ _haversine_m(r[2], r[3], ks[1][2], ks[1][3]) <= ClusterDistMm
    THEN 1 ELSE 0

\* Index of the first k in ks within 1000 m of r, 0 when none
RECURSIVE FirstWithin(_, _, _)
FirstWithin(r, ks, n) ==
    IF n > Len(ks) THEN 0
    ELSE IF _haversine_m(r[2], r[3], ks[n][2], ks[n][3]) <= ClusterDistMm THEN n
    ELSE FirstWithin(r, ks, n + 1)

\* A preference for the larger area, then the higher rank.
BetterByArea(r, k) == (r[6] > k[6]) \/ (r[6] = k[6] /\ r[5] > k[5])

\* (rank > k[4]) or (rank == k[4] and float(area or 0.0) > float(k[5] or 0.0))
Better(r, k) == (r[5] > k[5]) \/ (r[5] = k[5] /\ r[6] > k[6])

\* [k[0], k[1], k[2], k[3]] for every k in ks
Strip4(ks) == [n \in DOMAIN ks |-> <<ks[n][1], ks[n][2], ks[n][3], ks[n][4]>>]

\* dedupe_courses_ranked is called with the list rs.
CallB(rs) ==
    /\ records = rs
    /\ srcB = rs
    /\ by_name = <<>>
    /\ g = 1
    /\ items = <<>>
    /\ j = 1
    /\ keptB = <<>>
    /\ out = <<>>
    /\ pcB = "start"
    /\ runB = 1
    /\ firstB = <<>>

\* No dedupe_courses_ranked call is in progress.
IdleB ==
    /\ records = <<>>
    /\ srcB = <<>>
    /\ by_name = <<>>
    /\ g = 1
    /\ items = <<>>
    /\ j = 1
    /\ keptB = <<>>
    /\ out = <<>>
    /\ pcB = "idle"
    /\ runB = 1
    /\ firstB = <<>>

\* The first loop: group the records by name key.
GroupByName ==
    /\ pcB = "start"
    /\ by_name' = GroupFrom(records, 1, <<>>)
    /\ g' = 1
    /\ pcB' = "groups"
    /\ UNCHANGED <<records, items, j, keptB, out, runB, srcB, firstB>>
    /\ UNCHANGED <<varsA, varsX, varsH, varsQ>>

\* Enter the next group: items.sort(...); kept = []
SortGroup ==
    /\ pcB = "groups"
    /\ g <= Len(by_name)
    /\ items' = SortRanked(by_name[g][2])
    /\ keptB' = <<>>
    /\ j' = 1
    /\ pcB' = "greedy"
    /\ UNCHANGED <<records, by_name, g, out, runB, srcB, firstB>>
    /\ UNCHANGED <<varsA, varsX, varsH, varsQ>>

\* One iteration over items in which items[j] is within 1000 m of a kept
\* record: it replaces that record if it is better, and is dropped if not.
Merge ==
    /\ pcB = "greedy"
    /\ j <= Len(items)
    /\ LET r == items[j]
           n == FirstWithin(r, keptB, 1)
       IN  /\ n # 0
           /\ keptB' = IF Better(r, keptB[n]) THEN [keptB EXCEPT ![n] = r] ELSE keptB
    /\ j' = j + 1
    /\ UNCHANGED <<records, by_name, g, items, out, pcB, runB, srcB, firstB>>
    /\ UNCHANGED <<varsA, varsX, varsH, varsQ>>

\* One iteration over items in which items[j] starts a new cluster.
NewCluster ==
    /\ pcB = "greedy"
    /\ j <= Len(items)
    /\ FirstWithin(items[j], keptB, 1) = 0
    /\ keptB' = Append(keptB, items[j])
    /\ j' = j + 1
    /\ UNCHANGED <<records, by_name, g, items, out, pcB, runB, srcB, firstB>>
    /\ UNCHANGED <<varsA, varsX, varsH, varsQ>>

\* The group is done: out.append([k[0], k[1], k[2], k[3]]) for k in kept
EmitGroup ==
    /\ pcB = "greedy"
    /\ j > Len(items)
    /\ out' = out \o Strip4(keptB)
    /\ g' = g + 1
    /\ pcB' = "groups"
    /\ UNCHANGED <<records, by_name, items, j, keptB, runB, srcB, firstB>>
    /\ UNCHANGED <<varsA, varsX, varsH, varsQ>>

\* All groups are done: out.sort(...); return out
ReturnB ==
    /\ pcB = "groups"
    /\ g > Len(by_name)
    /\ out' = SortByLabel(out)
    /\ pcB' = "done"
    /\ UNCHANGED <<records, by_name, g, items, j, keptB, runB, srcB, firstB>>
    /\ UNCHANGED <<varsA, varsX, varsH, varsQ>>

\* All orders of the list s
Orders(s) ==
    {[n \in DOMAIN s |-> s[f[n]]] :
        f \in {h \in [DOMAIN s -> DOMAIN s] : \A a, b \in DOMAIN s : a # b => h[a] # h[b]}}

\* The caller runs dedupe_courses_ranked again, on the same records
\* presented in some order.
RunReordered ==
    /\ pcB = "done"
    /\ runB = 1
    /\ firstB' = out
    /\ records' \in Orders(srcB)
    /\ runB' = 2
    /\ by_name' = <<>>
    /\ g' = 1
    /\ items' = <<>>
    /\ j' = 1
    /\ keptB' = <<>>
    /\ out' = <<>>
    /\ pcB' = "start"
    /\ UNCHANGED srcB
    /\ UNCHANGED <<varsA, varsX, varsH, varsQ>>

NextB ==
    GroupByName \/ SortGroup \/ Merge \/ NewCluster \/ EmitGroup \/ ReturnB
    \/ RunReordered

-----------------------------------------------------------------------------
(* extract_courses: Overpass elements -> raw records -> dedupe_courses     *)
(*                                                                         *)
(* A Python value of an element is a record tagged by its type:            *)
(*   [t |-> "None"], [t |-> "float", v |-> n] (n in 1e-6 degrees),         *)
(*   [t |-> "nan"], [t |-> "int", v |-> n], [t |-> "str", s |-> chars],    *)
(*   [t |-> "dict", d |-> function], [t |-> "list", items |-> sequence].   *)
(* An element is [type, tags, lat, lon, geometry, center]; tags is the     *)
(* dict of tags (a function), the other fields are Python values, None     *)
(* when the key is missing.                                                *)

PyNone == [t |-> "None"]
PyNaN == [t |-> "nan"]
PyFloatOf(n) == [t |-> "float", v |-> n]
PyInt(n) == [t |-> "int", v |-> n]
PyStr(chars) == [t |-> "str", s |-> chars]
PyDict(f) == [t |-> "dict", d |-> f]
PyList(xs) == [t |-> "list", items |-> xs]

\* bool(v)
Truthy(v) ==
    CASE v.t = "None" -> FALSE
      [] v.t = "float" -> v.v # 0
      [] v.t = "int" -> v.v # 0
      [] v.t = "nan" -> TRUE
      [] v.t = "str" -> v.s # <<>>
      [] v.t = "dict" -> DOMAIN v.d # {}
      [] v.t = "list" -> v.items # <<>>

\* d.get(k) on a dict given as a function
DictGet(f, k) == IF k \in DOMAIN f THEN f[k] ELSE PyNone

\* a or b
OrElse(a, b) == IF Truthy(a) THEN a ELSE b

\* float(v): [ok |-> FALSE] when it raises (TypeError for None, a list or
\* a dict, ValueError for a str that is no number: the strs of the model),
\* else the float, which is finite or not.
float(v) ==
    CASE v.t = "float" -> [ok |-> TRUE, finite |-> TRUE, v |-> v.v]
      [] v.t = "int" -> [ok |-> TRUE, finite |-> TRUE, v |-> v.v * 1000000]
      [] v.t = "nan" -> [ok |-> TRUE, finite |-> FALSE]
      [] v.t \in {"None", "dict", "list"} -> [ok |-> FALSE]
      [] v.t = "str" /\ (\E n \in DOMAIN v.s : v.s[n] \in {"a", "b", "c"}) -> [ok |-> FALSE]

\* round(x, 5) of x in 1e-6 degrees, in 1e-5 degrees (the model has no x
\* that ends in 5, where the double's binary expansion would decide)
round5(x) == (x + 5) \div 10

\* _centroid_from_geom(geom): <<lat, lon>> as Python values
RECURSIVE GeomSum(_, _, _)
GeomSum(pts, n, acc) ==
    IF n > Len(pts) THEN acc
    ELSE LET p   == pts[n]
             lat == IF p.t = "dict" THEN float(DictGet(p.d, "lat")) ELSE [ok |-> FALSE]
             lon == IF p.t = "dict" THEN float(DictGet(p.d, "lon")) ELSE [ok |-> FALSE]
         IN  IF lat.ok /\ lon.ok /\ lat.finite /\ lon.finite
             THEN GeomSum(pts, n + 1, <<acc[1] + lat.v, acc[2] + lon.v, acc[3] + 1>>)
             ELSE GeomSum(pts, n + 1, acc)

_centroid_from_geom(geom) ==
    IF ~Truthy(geom) \/ geom.t # "list" THEN <<PyNone, PyNone>>
    ELSE LET sum == GeomSum(geom.items, 1, <<0, 0, 0>>)
         IN  IF sum[3] = 0 THEN <<PyNone, PyNone>>
             ELSE <<PyFloatOf(TruncDiv(sum[1], sum[3])), PyFloatOf(TruncDiv(sum[2], sum[3]))>>

MetaKeys == <<"addr:county", "addr:state", "addr:city", "addr:town", "addr:village",
              "is_in:county", "is_in:state", "is_in">>

\* _pick_meta(tags)
RECURSIVE PickMetaFrom(_, _)
PickMetaFrom(tags, n) ==
    IF n > Len(MetaKeys) THEN <<>>
    ELSE LET v == DictGet(tags, MetaKeys[n])
         IN  IF Truthy(v) /\ v.t = "str" /\ Strip(v.s) # <<>> THEN Strip(v.s)
             ELSE PickMetaFrom(tags, n + 1)

_pick_meta(tags) == PickMetaFrom(tags, 1)

\* lat, lon of the element before float(): lines 329-341.  [ok |-> FALSE]
\* when center is neither None nor a dict (center.get raises).
ElementLatLon(el) ==
    IF el.type = "node" THEN [ok |-> TRUE, lat |-> el.lat, lon |-> el.lon]
    ELSE LET c == IF Truthy(el.geometry) THEN _centroid_from_geom(el.geometry)
                  ELSE <<PyNone, PyNone>>
         IN  IF c[1].t = "None" \/ c[2].t = "None"
             THEN LET center == OrElse(el.center, PyDict(<<>>))
                  IN  IF center.t # "dict" THEN [ok |-> FALSE]
                      ELSE [ok |-> TRUE, lat |-> DictGet(center.d, "lat"),
                                         lon |-> DictGet(center.d, "lon")]
             ELSE [ok |-> TRUE, lat |-> c[1], lon |-> c[2]]

\* One iteration of the loop of extract_courses on element el:
\* [kind |-> "raise"], [kind |-> "skip"] or [kind |-> "add", rec |-> record].
ExtractElement(el) ==
    LET tags == el.tags
        nm   == OrElse(OrElse(OrElse(DictGet(tags, "name"), DictGet(tags, "name:en")),
                              DictGet(tags, "operator")), PyStr(<<>>))
    IN  IF nm.t # "str" THEN [kind |-> "raise"]  \* (name or "").strip()
        ELSE IF _normalize_name(nm.s) = <<>> THEN [kind |-> "skip"]
        ELSE LET ll == ElementLatLon(el)
             IN  IF ~ll.ok THEN [kind |-> "raise"]
                 ELSE LET lat == float(ll.lat)
                          lon == float(ll.lon)
                      IN  IF ~lat.ok \/ ~lon.ok THEN [kind |-> "skip"]
                          ELSE IF ~(lat.finite /\ lon.finite) THEN [kind |-> "skip"]
                          ELSE [kind |-> "add",
                                rec |-> <<_normalize_name(nm.s), round5(lat.v),
                                          round5(lon.v), _pick_meta(tags)>>]

Point(lat, lon) == PyDict(("lat" :> lat) @@ ("lon" :> lon))

Element(type, tags, lat, lon, geometry, center) ==
    [type |-> type, tags |-> tags, lat |-> lat, lon |-> lon,
     geometry |-> geometry, center |-> center]

PoolX == {
    \* a node with a state tag; rounds to PosE0
    Element("node", ("name" :> PyStr(NmAbcd)) @@ ("addr:state" :> PyStr(MetaNJ)),
            PyFloatOf(39800004), PyFloatOf(-74930004), PyNone, PyNone),
    \* a node named by name:en; rounds to PosE1
    Element("node", ("name:en" :> PyStr(NmAbcDe)),
            PyFloatOf(39800101), PyFloatOf(-74930046), PyNone, PyNone),
    \* a node whose name tag is the number 5
    Element("node", ("name" :> PyInt(5)),
            PyFloatOf(39800004), PyFloatOf(-74930004), PyNone, PyNone),
    \* a node at latitude 95
    Element("node", ("name" :> PyStr(NmAbcd)),
            PyFloatOf(95000000), PyFloatOf(10000000), PyNone, PyNone),
    \* a node whose lat is the str "abc"
    Element("node", ("name" :> PyStr(NmAbcd)),
            PyStr(<<"a", "b", "c">>), PyFloatOf(-74930004), PyNone, PyNone),
    \* a node whose lon is nan
    Element("node", ("name" :> PyStr(NmAbcd)),
            PyFloatOf(39800004), PyNaN, PyNone, PyNone),
    \* a node with no tags
    Element("node", <<>>, PyFloatOf(39800004), PyFloatOf(-74930004), PyNone, PyNone),
    \* a way with a geometry, one vertex of which has no lat
    Element("way", ("name" :> PyStr(NmAbcd)), PyNone, PyNone,
            PyList(<<Point(PyFloatOf(39800000), PyFloatOf(-74930000)),
                     Point(PyNone, PyFloatOf(-74930000)),
                     Point(PyFloatOf(39800008), PyFloatOf(-74930008))>>),
            PyNone),
    \* a way named by its operator, with a center only
    Element("way", ("operator" :> PyStr(NmAbcDe)) @@ ("is_in" :> PyStr(<<" ">>)),
            PyNone, PyNone, PyNone, Point(PyFloatOf(39800101), PyFloatOf(-74930046))),
    \* a way with neither geometry nor center
    Element("way", ("name" :> PyStr(NmAbcd)), PyNone, PyNone, PyNone, PyNone),
    \* a way whose center is a str
    Element("way", ("name" :> PyStr(NmAbcd)), PyNone, PyNone, PyNone,
            PyStr(<<"a", "b", "c">>)) }

\* Longest list of elements.
MaxElements == 2

\* extract_courses is called with the elements es.
CallX(es) ==
    /\ elements = es
    /\ e = 1
    /\ raw = <<>>
    /\ pcX = "loop"

\* No extract_courses call is in progress.
IdleX ==
    /\ elements = <<>>
    /\ e = 1
    /\ raw = <<>>
    /\ pcX = "idle"

\* An iteration that ends in continue.
SkipElement ==
    /\ pcX = "loop"
    /\ e <= Len(elements)
    /\ ExtractElement(elements[e]).kind = "skip"
    /\ e' = e + 1
    /\ UNCHANGED <<elements, raw, pcX>>
    /\ UNCHANGED <<varsA, varsB, varsH, varsQ>>

\* An iteration that appends a record to raw.
AddElement ==
    /\ pcX = "loop"
    /\ e <= Len(elements)
    /\ ExtractElement(elements[e]).kind = "add"
    /\ raw' = Append(raw, ExtractElement(elements[e]).rec)
    /\ e' = e + 1
    /\ UNCHANGED <<elements, pcX>>
    /\ UNCHANGED <<varsA, varsB, varsH, varsQ>>

\* An iteration that raises: extract_courses ends with the exception.
RaiseElement ==
    /\ pcX = "loop"
    /\ e <= Len(elements)
    /\ ExtractElement(elements[e]).kind = "raise"
    /\ pcX' = "raised"
    /\ UNCHANGED <<elements, e, raw>>
    /\ UNCHANGED <<varsA, varsB, varsH, varsQ>>

\* return dedupe_courses(raw)
ExtractReturn ==
    /\ pcX = "loop"
    /\ e > Len(elements)
    /\ pc = "idle"
    /\ pcX' = "dedupe"
    /\ courses' = raw
    /\ src' = raw
    /\ i' = 1
    /\ kept' = <<>>
    /\ buckets' = <<>>
    /\ pc' = "loop"
    /\ run' = 1
    /\ first' = <<>>
    /\ result' = <<>>
    /\ UNCHANGED <<elements, e, raw>>
    /\ UNCHANGED <<varsB, varsH, varsQ>>

NextX == SkipElement \/ AddElement \/ RaiseElement \/ ExtractReturn

-----------------------------------------------------------------------------
(* build_country_geofabrik: the classifier and the Handler callbacks       *)
(*                                                                         *)
(* A feature is [kind, tags, loc, nodes, mp_ok, coords, from_way]:         *)
(*   kind     "node" | "way" | "area", the callback it is given to         *)
(*   tags     [name, official_name, alt_name, name_en: chars (<<>> when    *)
(*            missing); leisure, golf, sport, landuse: the tag value ("" when *)
(*            missing; the code treats a missing tag and "" alike)]        *)
(*   loc      node: [valid, lat, lon], the location, in 1e-6 degrees       *)
(*   nodes    way: the node locations, in order                            *)
(*   mp_ok    area: create_multipolygon and json.loads succeed             *)
(*   coords   area: the GeoJSON "coordinates": polygons of rings of        *)
(*            <<lon, lat>> points, in 1e-6 degrees                          *)
(*   from_way area: a.from_way()                                           *)
(* Vertices lie on the 1e-5 degree grid within 0.1 degree of (0, 0), where *)
(* cos(lat0) = 1.000 and the shoelace sums fit 32-bit integers.            *)

excluded_golf == {"driving_range", "practice", "putting_green", "hole", "tee", "green"}
excluded_leisure == {"miniature_golf"}

\* (area_m2 or 0.0) >= 20000.0
MinWeakAreaM2 == 20000

\* a or b on strs given as character sequences
OrChars(a, b) == IF a # <<>> THEN a ELSE b

get_name(tags) ==
    _normalize_name(OrChars(OrChars(OrChars(tags.name, tags.official_name),
                                    tags.alt_name), tags.name_en))

is_excluded(tags) ==
    \/ tags.leisure \in excluded_leisure
    \/ tags.golf \in excluded_golf
    \/ tags.golf = "driving_range"

\* is_candidate without the size threshold on weak tagging
is_candidate_any_area(tags, geom_rank, area_m2) ==
    IF is_excluded(tags) THEN FALSE
    ELSE IF tags.leisure = "golf_course" \/ tags.golf = "course" THEN TRUE
    ELSE IF tags.sport = "golf"
            /\ (tags.leisure \in {"pitch", "track", "park"}
                \/ tags.landuse = "recreation_ground")
         THEN geom_rank >= 2
    ELSE FALSE

is_candidate(tags, geom_rank, area_m2) ==
    IF is_excluded(tags) THEN FALSE
    ELSE IF tags.leisure = "golf_course" \/ tags.golf = "course" THEN TRUE
    ELSE IF tags.sport = "golf"
         THEN IF tags.leisure \in {"pitch", "track"} \/ tags.landuse = "recreation_ground"
              THEN geom_rank >= 2 /\ area_m2 >= MinWeakAreaM2
              ELSE IF tags.leisure = "park"
                   THEN geom_rank >= 2 /\ area_m2 >= MinWeakAreaM2
                   ELSE FALSE
    ELSE FALSE

\* Nearest integer to n / d (d # 0)
RoundDiv(n, d) ==
    IF d < 0 THEN (2 * (-n) + (-d)) \div (2 * (-d)) ELSE (2 * n + d) \div (2 * d)

RECURSIVE SumOver(_, _, _)
SumOver(xs, k, n) == IF n > Len(xs) THEN 0 ELSE xs[n][k] + SumOver(xs, k, n + 1)

\* The shoelace sums <<A2, Cx6, Cy6>> over the edges n .. Len(pts) - 1
RECURSIVE Shoelace(_, _)
Shoelace(pts, n) ==
    IF n > Len(pts) - 1 THEN <<0, 0, 0>>
    ELSE LET x0    == pts[n][1]
             y0    == pts[n][2]
             x1    == pts[n + 1][1]
             y1    == pts[n + 1][2]
             cross == x0 * y1 - x1 * y0
             rest  == Shoelace(pts, n + 1)
         IN  <<cross + rest[1], (x0 + x1) * cross + rest[2], (y0 + y1) * cross + rest[3]>>

\* _polygon_centroid_area_m2(ring_lonlat): [ok |-> FALSE, area |-> 0] for
\* (None, None, 0.0), else the centroid (rounded to 1e-5 degrees, given in
\* 1e-6 degrees) and the area in m2.  The projection is x = R lon cos(lat0),
\* y = R lat; in units of 1e-5 degrees (1.1119493 m) that is x = lon
\* cos(lat0), y = lat, and abs(A2) / 2.0 for A2 = n square units is n * 0.6182 m2.
_polygon_centroid_area_m2(ring) ==
    IF Len(ring) < 4 THEN [ok |-> FALSE, area |-> 0]
    ELSE LET lat0 == SumOver(ring, 2, 1) \div (10 * Len(ring))
             c    == CosMilli(lat0)
             pts  == [n \in DOMAIN ring |->
                         <<((ring[n][1] \div 10) * c) \div 1000, ring[n][2] \div 10>>]
             sums == Shoelace(pts, 1)
             A2   == sums[1]
             open == SubSeq(pts, 1, Len(pts) - 1)
             cx   == IF A2 = 0 THEN RoundDiv(SumOver(open, 1, 1), Len(open))
                     ELSE RoundDiv(sums[2], 3 * A2)
             cy   == IF A2 = 0 THEN RoundDiv(SumOver(open, 2, 1), Len(open))
                     ELSE RoundDiv(sums[3], 3 * A2)
         IN  [ok |-> TRUE,
              lat |-> 10 * cy,
              lon |-> 10 * RoundDiv(cx * 1000, c),
              area |-> (Abs(A2) * 6182) \div 10000]

\* _geo_point_on_surface_from_coords(coords): first = coords[0][0] is the
\* outer ring of the first polygon, so first[1] and first[0] are points;
\* float() of a point (a list) raises TypeError, and indexing a missing
\* polygon, ring or point raises IndexError: every path ends in
\* except Exception: return (None, None).
_geo_point_on_surface_from_coords(coords) ==
    IF coords = <<>> \/ coords[1] = <<>> THEN <<PyNone, PyNone>>
    ELSE LET ring == coords[1][1]
         IN  IF Len(ring) < 2 THEN <<PyNone, PyNone>>
             ELSE LET lat == float(PyList(ring[2]))
                      lon == float(PyList(ring[1]))
                  IN  IF lat.ok /\ lon.ok
                      THEN <<PyFloatOf(lat.v), PyFloatOf(lon.v)>>
                      ELSE <<PyNone, PyNone>>

\* str.upper() on one character / on a str
ToUpper(c) ==
    IF \E n \in DOMAIN LowerCh : LowerCh[n] = c
    THEN Upper[CHOOSE n \in DOMAIN LowerCh : LowerCh[n] = c]
    ELSE c

StrUpper(s) == [n \in DOMAIN s |-> ToUpper(s[n])]

\* the argument code2 of build_country_geofabrik
code2 == <<"e", "s">>

\* Handler._add(name, lat, lon, rank, area_m2), lat and lon Python values:
\* "raise" (math.isfinite(None)), "drop" or "add" with the record
HandlerAdd(name, lat, lon, rank, area_m2) ==
    IF name = <<>> THEN [kind |-> "drop"]
    ELSE IF lat.t \notin {"float", "int", "nan"} THEN [kind |-> "raise"]
    ELSE IF lat.t = "float" /\ lon.t \notin {"float", "int", "nan"} THEN [kind |-> "raise"]
    ELSE IF ~(lat.t = "float" /\ lon.t = "float") THEN [kind |-> "drop"]
    ELSE [kind |-> "add",
          rec |-> <<name, round5(lat.v), round5(lon.v), StrUpper(code2), rank, area_m2>>]

\* Handler.node(n): [decision, res], res the result of _add or "drop"
HandlerNode(f) ==
    LET tags == f.tags
        name == get_name(tags)
    IN  IF name = <<>> THEN [decision |-> -1, res |-> [kind |-> "drop"]]
        ELSE IF ~(tags.leisure = "golf_course" \/ tags.golf = "course")
             THEN [decision |-> 0, res |-> [kind |-> "drop"]]
        ELSE IF is_excluded(tags) THEN [decision |-> 0, res |-> [kind |-> "drop"]]
        ELSE IF f.loc.valid
             THEN [decision |-> 1,
                   res |-> HandlerAdd(name, PyFloatOf(f.loc.lat), PyFloatOf(f.loc.lon), 1, 0)]
             ELSE [decision |-> 1, res |-> [kind |-> "drop"]]

\* coords of Handler.way: (lon, lat) of the nodes with a valid location
RECURSIVE ValidCoords(_, _)
ValidCoords(nodes, n) ==
    IF n > Len(nodes) THEN <<>>
    ELSE (IF nodes[n].valid THEN <<<<nodes[n].lon, nodes[n].lat>>>> ELSE <<>>)
         \o ValidCoords(nodes, n + 1)

\* Handler.way(w)
HandlerWay(f) ==
    LET tags   == f.tags
        name   == get_name(tags)
        coords == ValidCoords(f.nodes, 1)
    IN  IF name = <<>> THEN [decision |-> -1, res |-> [kind |-> "drop"]]
        ELSE IF is_excluded(tags) THEN [decision |-> 0, res |-> [kind |-> "drop"]]
        ELSE IF Len(coords) < 3 THEN [decision |-> -1, res |-> [kind |-> "drop"]]
        ELSE LET closed == coords[1] = coords[Len(coords)] /\ Len(coords) >= 4
                 ca     == _polygon_centroid_area_m2(coords)
                 area   == IF closed THEN ca.area ELSE 0
                 lat    == IF closed
                           THEN (IF ca.ok THEN PyFloatOf(ca.lat) ELSE PyNone)
                           ELSE PyFloatOf(10 * RoundDiv(SumOver(coords, 2, 1), 10 * Len(coords)))
                 lon    == IF closed
                           THEN (IF ca.ok THEN PyFloatOf(ca.lon) ELSE PyNone)
                           ELSE PyFloatOf(10 * RoundDiv(SumOver(coords, 1, 1), 10 * Len(coords)))
             IN  IF ~is_candidate(tags, 2, area)
                 THEN [decision |-> 0, res |-> [kind |-> "drop"]]
                 ELSE [decision |-> 2, res |-> HandlerAdd(name, lat, lon, 2, area)]

\* The loop over the polygons of Handler.area from polygon n on:
\* [best_area, best (a Python value pair), total_area]
RECURSIVE LargestRing(_, _, _)
LargestRing(coords, n, acc) ==
    IF n > Len(coords) THEN acc
    ELSE LET poly == coords[n]
         IN  IF poly = <<>> \/ poly[1] = <<>> THEN LargestRing(coords, n + 1, acc)
             ELSE LET ca    == _polygon_centroid_area_m2(poly[1])
                      total == acc.total_area + ca.area
                  IN  IF ca.area > acc.best_area /\ ca.ok
                      THEN LargestRing(coords, n + 1,
                               [best_area |-> ca.area, best_lat |-> PyFloatOf(ca.lat),
                                best_lon |-> PyFloatOf(ca.lon), total_area |-> total])
                      ELSE LargestRing(coords, n + 1, [acc EXCEPT !.total_area = total])

\* Handler.area(a)
HandlerArea(f) ==
    LET tags == f.tags
        name == get_name(tags)
    IN  IF name = <<>> THEN [decision |-> -1, res |-> [kind |-> "drop"]]
        ELSE IF is_excluded(tags) THEN [decision |-> 0, res |-> [kind |-> "drop"]]
        ELSE IF ~f.mp_ok THEN [decision |-> -1, res |-> [kind |-> "drop"]]
        ELSE IF f.coords = <<>> THEN [decision |-> -1, res |-> [kind |-> "drop"]]
        ELSE LET r    == LargestRing(f.coords, 1,
                             [best_area |-> 0, best_lat |-> PyNone, best_lon |-> PyNone,
                              total_area |-> 0])
                 fb   == _geo_point_on_surface_from_coords(f.coords)
                 none == r.best_lat.t = "None" \/ r.best_lon.t = "None"
                 lat  == IF none THEN fb[1] ELSE r.best_lat
                 lon  == IF none THEN fb[2] ELSE r.best_lon
                 rank == IF f.from_way THEN 2 ELSE 3
             IN  IF ~is_candidate(tags, rank, r.total_area)
                 THEN [decision |-> 0, res |-> [kind |-> "drop"]]
                 ELSE [decision |-> rank,
                       res |-> HandlerAdd(name, lat, lon, rank, r.total_area)]

Tags(name, official_name, leisure, golf, sport, landuse) ==
    [name |-> name, official_name |-> official_name, alt_name |-> <<>>, name_en |-> <<>>,
     leisure |-> leisure, golf |-> golf, sport |-> sport, landuse |-> landuse]

\* The classification tags of the model: leisure, golf, sport, landuse
TagCombos == {
    <<"golf_course", "", "", "">>,
    <<"", "course", "", "">>,
    <<"golf_course", "driving_range", "", "">>,
    <<"miniature_golf", "course", "golf", "">>,
    <<"", "", "golf", "recreation_ground">>,
    <<"pitch", "", "golf", "">>,
    <<"park", "", "golf", "">>,
    <<"pitch", "hole", "golf", "">>,
    <<"", "", "golf", "">>,
    <<"park", "", "", "">> }

TagSets ==
    {Tags(NmPine, <<>>, t[1], t[2], t[3], t[4]) : t \in TagCombos}
    \cup {Tags(<<>>, NmPine, "golf_course", "", "", ""),
          Tags(<<>>, <<>>, "golf_course", "", "", ""),
          Tags(<<" ">>, <<>>, "", "", "golf", "park")}

Loc(lat, lon) == [valid |-> TRUE, lat |-> lat, lon |-> lon]
NoLoc == [valid |-> FALSE, lat |-> 0, lon |-> 0]

\* A closed square ring of the given side (1e-6 degrees) with its south-west
\* corner at <<lon, lat>>: points <<lon, lat>>
Square(lon, lat, side) ==
    <<<<lon, lat>>, <<lon + side, lat>>, <<lon + side, lat + side>>,
      <<lon, lat + side>>, <<lon, lat>>>>

\* 1500e-6 degrees = 166.8 m: 27819 m2; 1000e-6 degrees = 111.2 m: 12364 m2
RingBig == Square(0, 0, 1500)
RingSmall == Square(2000, 0, 1000)
RingSmall2 == Square(4000, 0, 1000)

\* A closed ring that runs east along the equator and back: its shoelace sum
\* is exactly 0, the mean of its vertices is (0, 0.001)
RingFlat == <<<<0, 0>>, <<1000, 0>>, <<2000, 0>>, <<1000, 0>>, <<0, 0>>>>

LocsOf(ring) == [n \in DOMAIN ring |-> Loc(ring[n][2], ring[n][1])]

Feature(kind, tags, loc, nodes, mp_ok, coords, from_way) ==
    [kind |-> kind, tags |-> tags, loc |-> loc, nodes |-> nodes, mp_ok |-> mp_ok,
     coords |-> coords, from_way |-> from_way]

Geometries == {
    <<"node", Loc(400004, 700004), <<>>, FALSE, <<>>, FALSE>>,
    <<"node", NoLoc, <<>>, FALSE, <<>>, FALSE>>,
    <<"way", NoLoc, LocsOf(RingBig), FALSE, <<>>, FALSE>>,
    <<"way", NoLoc, LocsOf(RingSmall), FALSE, <<>>, FALSE>>,
    \* an open way of three nodes, one more without a location
    <<"way", NoLoc, <<Loc(0, 0), NoLoc, Loc(0, 3000), Loc(3000, 3000)>>, FALSE, <<>>, FALSE>>,
    \* a way with two located nodes
    <<"way", NoLoc, <<Loc(0, 0), Loc(0, 3000)>>, FALSE, <<>>, FALSE>>,
    <<"area", NoLoc, <<>>, TRUE, <<<<RingBig>>>>, FALSE>>,
    <<"area", NoLoc, <<>>, TRUE, <<<<RingBig>>>>, TRUE>>,
    <<"area", NoLoc, <<>>, TRUE, <<<<RingSmall>>>>, FALSE>>,
    \* two polygons, each below the threshold, together above it
    <<"area", NoLoc, <<>>, TRUE, <<<<RingSmall>>, <<RingSmall2>>>>, FALSE>>,
    \* the largest outer ring comes second
    <<"area", NoLoc, <<>>, TRUE, <<<<RingSmall>>, <<RingBig>>>>, FALSE>>,
    \* a multipolygon whose only outer ring has area 0
    <<"area", NoLoc, <<>>, TRUE, <<<<RingFlat>>>>, FALSE>>,
    \* an outer ring of area 0 before one with an area
    <<"area", NoLoc, <<>>, TRUE, <<<<RingFlat>>, <<RingSmall>>>>, FALSE>>,
    \* a multipolygon whose only outer ring is empty
    <<"area", NoLoc, <<>>, TRUE, <<<<<<>>>>>>, FALSE>>,
    \* create_multipolygon raises
    <<"area", NoLoc, <<>>, FALSE, <<>>, FALSE>>,
    \* "coordinates" is empty
    <<"area", NoLoc, <<>>, TRUE, <<>>, FALSE>> }

Features ==
    {Feature(gm[1], tg, gm[2], gm[3], gm[4], gm[5], gm[6]) : tg \in TagSets, gm \in Geometries}

\* Most callbacks apply_file makes in the model.
MaxFeatures == 2

NoFeature == [kind |-> "none"]

\* h = Handler(); h.apply_file(...) starts
CallH ==
    /\ hrecords = <<>>
    /\ hcount = 0
    /\ pcH = "apply"
    /\ last = [f |-> NoFeature, decision |-> -1, res |-> "none"]

\* No Handler is in use.
IdleH ==
    /\ hrecords = <<>>
    /\ hcount = 0
    /\ pcH = "idle"
    /\ last = [f |-> NoFeature, decision |-> -1, res |-> "none"]

\* The effect of a callback on feature f that came to [decision, res]
Callback(f, r) ==
    /\ pcH = "apply"
    /\ hcount < MaxFeatures
    /\ hcount' = hcount + 1
    /\ last' = [f |-> f, decision |-> r.decision, res |-> r.res.kind]
    /\ hrecords' = IF r.res.kind = "add" THEN Append(hrecords, r.res.rec) ELSE hrecords
    /\ pcH' = IF r.res.kind = "raise" THEN "raised" ELSE "apply"
    /\ UNCHANGED <<varsA, varsB, varsX, varsQ>>

NodeCallback == \E f \in Features : f.kind = "node" /\ Callback(f, HandlerNode(f))

WayCallback == \E f \in Features : f.kind = "way" /\ Callback(f, HandlerWay(f))

AreaCallback == \E f \in Features : f.kind = "area" /\ Callback(f, HandlerArea(f))

\* apply_file returns and the records go to dedupe_courses_ranked
ApplyDone ==
    /\ pcH = "apply"
    /\ pcB = "idle"
    /\ pcH' = "done"
    /\ records' = hrecords
    /\ srcB' = hrecords
    /\ by_name' = <<>>
    /\ g' = 1
    /\ items' = <<>>
    /\ j' = 1
    /\ keptB' = <<>>
    /\ out' = <<>>
    /\ pcB' = "start"
    /\ runB' = 1
    /\ firstB' = <<>>
    /\ UNCHANGED <<hrecords, hcount, last>>
    /\ UNCHANGED <<varsA, varsX, varsQ>>

NextH == NodeCallback \/ WayCallback \/ AreaCallback \/ ApplyDone

-----------------------------------------------------------------------------
(* overpass_query.  The file system and the network are the environment:   *)
(* _http_post, json.loads and cp.write_text each return or raise, and the  *)
(* except Exception of the loop catches all three.  CACHE_DIR.mkdir,       *)
(* json.dumps of parsed JSON and time.sleep of the default 1.0 do not     *)
(* raise.                                                                  *)

\* len(OVERPASS_ENDPOINTS)
NumEndpoints == 3
\* range(1, 5)
LastAttempt == 4

\* Most overpass_query calls in one behaviour.
MaxCalls == 2

\* No overpass_query call has been made; the cache file may be there from
\* an earlier build.
IdleQ ==
    /\ cache \in {"absent", "valid"}
    /\ calls = 0
    /\ use_cache = TRUE
    /\ pcQ = "idle"
    /\ endpoint = 1
    /\ attempt = 1
    /\ posts = 0
    /\ parsed = 0
    /\ last_err = "None"
    /\ outcomeQ = "none"

\* The program is not between the entry and the exit of a call.
BetweenCalls == pcQ \in {"idle", "returned", "raised"}

\* overpass_query(query, use_cache=True) finds the cache file and returns
\* json.loads of it.
ReturnCached ==
    /\ BetweenCalls /\ calls < MaxCalls
    /\ cache = "valid"
    /\ use_cache' = TRUE
    /\ calls' = calls + 1
    /\ posts' = 0
    /\ parsed' = 0
    /\ last_err' = "None"
    /\ endpoint' = 1 /\ attempt' = 1
    /\ pcQ' = "returned"
    /\ outcomeQ' = "cached"
    /\ UNCHANGED cache
    /\ UNCHANGED <<varsA, varsB, varsX, varsH>>

\* overpass_query(query, use_cache=True) finds a cache file that json.loads
\* rejects.
CachedRaises ==
    /\ BetweenCalls /\ calls < MaxCalls
    /\ cache = "corrupt"
    /\ use_cache' = TRUE
    /\ calls' = calls + 1
    /\ posts' = 0
    /\ parsed' = 0
    /\ last_err' = "None"
    /\ endpoint' = 1 /\ attempt' = 1
    /\ pcQ' = "raised"
    /\ outcomeQ' = "JSONDecodeError"
    /\ UNCHANGED cache
    /\ UNCHANGED <<varsA, varsB, varsX, varsH>>

\* overpass_query passes the cache test (no file, or use_cache false) and
\* enters the loops.
EnterLoop ==
    /\ BetweenCalls /\ calls < MaxCalls
    /\ \E uc \in BOOLEAN :
          /\ ~(uc /\ cache # "absent")
          /\ use_cache' = uc
    /\ calls' = calls + 1
    /\ posts' = 0
    /\ parsed' = 0
    /\ last_err' = "None"
    /\ endpoint' = 1 /\ attempt' = 1
    /\ pcQ' = "loop"
    /\ outcomeQ' = "none"
    /\ UNCHANGED cache
    /\ UNCHANGED <<varsA, varsB, varsX, varsH>>

\* except Exception as e: last_err = e; sleep; continue, after a request
\* that ended in the exception err
FailedAttempt(err) ==
    /\ posts' = posts + 1
    /\ parsed' = IF err = "OSError" /\ parsed = 0 THEN posts + 1 ELSE parsed
    /\ last_err' = err
    /\ IF attempt < LastAttempt
       THEN attempt' = attempt + 1 /\ UNCHANGED <<endpoint, pcQ>>
       ELSE IF endpoint < NumEndpoints
            THEN attempt' = 1 /\ endpoint' = endpoint + 1 /\ UNCHANGED pcQ
            ELSE pcQ' = "exhausted" /\ UNCHANGED <<endpoint, attempt>>
    /\ UNCHANGED <<calls, use_cache, outcomeQ>>
    /\ UNCHANGED <<varsA, varsB, varsX, varsH>>

\* _http_post raises (connection, HTTP status, timeout, decoding).
PostFails ==
    /\ pcQ = "loop"
    /\ FailedAttempt("URLError")
    /\ UNCHANGED cache

\* The response is not JSON: json.loads raises.
ParseFails ==
    /\ pcQ = "loop"
    /\ FailedAttempt("JSONDecodeError")
    /\ UNCHANGED cache

\* The response parses, cp.write_text raises (OSError): the file is as it
\* was, or created or truncated with part of the text.
WriteFails ==
    /\ pcQ = "loop"
    /\ FailedAttempt("OSError")
    /\ cache' \in {cache, "corrupt"}

\* The response parses and is written: sleep and return data.
ReturnFetched ==
    /\ pcQ = "loop"
    /\ posts' = posts + 1
    /\ parsed' = IF parsed = 0 THEN posts + 1 ELSE parsed
    /\ cache' = "valid"
    /\ pcQ' = "returned"
    /\ outcomeQ' = "fetched"
    /\ UNCHANGED <<calls, use_cache, endpoint, attempt, last_err>>
    /\ UNCHANGED <<varsA, varsB, varsX, varsH>>

\* raise RuntimeError(f"Overpass failed: {last_err}")
RaiseFailed ==
    /\ pcQ = "exhausted"
    /\ pcQ' = "raised"
    /\ outcomeQ' = "RuntimeError"
    /\ UNCHANGED <<cache, calls, use_cache, endpoint, attempt, posts, parsed, last_err>>
    /\ UNCHANGED <<varsA, varsB, varsX, varsH>>

\* The steps inside a call
StepQ == PostFails \/ ParseFails \/ WriteFails \/ ReturnFetched \/ RaiseFailed

NextQ == ReturnCached \/ CachedRaises \/ EnterLoop \/ StepQ

-----------------------------------------------------------------------------
(* Specifications                                                          *)

\* The entry point in use is not overpass_query.
NoQuery ==
    /\ cache = "absent"
    /\ calls = 0
    /\ use_cache = TRUE
    /\ pcQ = "off"
    /\ endpoint = 1
    /\ attempt = 1
    /\ posts = 0
    /\ parsed = 0
    /\ last_err = "None"
    /\ outcomeQ = "none"

InitA == (\E cs \in SeqsUpTo(PoolA, MaxLen) : CallA(cs)) /\ IdleB /\ IdleX /\ IdleH /\ NoQuery

InitB == (\E rs \in SeqsUpTo(PoolB, MaxRecords) : CallB(rs)) /\ IdleA /\ IdleX /\ IdleH /\ NoQuery

InitX == (\E es \in SeqsUpTo(PoolX, MaxElements) : CallX(es)) /\ IdleA /\ IdleB /\ IdleH /\ NoQuery

InitH == CallH /\ IdleA /\ IdleB /\ IdleX /\ NoQuery

InitQ == IdleQ /\ IdleA /\ IdleB /\ IdleX /\ IdleH

\* dedupe_courses called directly
SpecA == InitA /\ [][NextA]_vars

\* dedupe_courses_ranked called directly
SpecB == InitB /\ [][NextB]_vars

\* Every entry point of the model
SpecH == InitH /\ [][NextH \/ NextB]_vars

SpecQ == InitQ /\ [][NextQ]_vars

\* A call that has begun goes on: the interpreter runs the next statement.
FairSpecQ == SpecQ /\ WF_vars(StepQ)

Spec ==
    /\ InitA \/ InitB \/ InitX \/ InitH \/ InitQ
    /\ [][NextA \/ NextB \/ NextX \/ NextH \/ NextQ]_vars
-----------------------------------------------------------------------------
(* Properties of dedupe_courses (Policy A)                                 *)

\* c and k are within 150 m (inclusive) of each other and the name key of c
\* has similarity >= 0.88 to the name key of k.
NearAndSimilar(c, k) ==
    /\ _haversine_m(c[2], c[3], k[2], k[3]) <= 150000
    /\ _similar(_name_key(c[1]), _name_key(k[1])) >= 8800

\* The for loop of the current call has just absorbed courses[i].
AbsorbStep ==
    /\ pc = "loop" /\ pc' = "loop"
    /\ i' = i + 1
    /\ Len(kept') = Len(kept)

\* C1: at every point of a dedupe_courses call, every input record already
\* processed has a survivor within 150 m (inclusive) whose name key it
\* resembles with ratio >= 0.88; so a record is dropped only into such a
\* survivor, and every dropped input has such a record in the output.
C1_DroppedOnlyIntoNearSimilar ==
    \A n \in DOMAIN courses :
        n < i => \E m \in DOMAIN kept : NearAndSimilar(courses[n], kept[m])

\* C1 witness: a call on three records has returned after dropping a record
\* whose label is not a label of the output (a survivor with another name
\* absorbed it), while two records within 150 m of each other (with
\* dissimilar names) both survived.
C1_Witness ==
    /\ pc = "done" /\ run = 1
    /\ \E n \in DOMAIN courses : \A m \in DOMAIN result : result[m][1] # courses[n][1]
    /\ \E m1, m2 \in DOMAIN result :
          /\ m1 # m2
          /\ _haversine_m(result[m1][2], result[m1][3], result[m2][2], result[m2][3]) <= 150000
    /\ Len(courses) = 3

\* C2 (as claimed): a record that has a survivor within 150 m with name-key
\* similarity >= 0.88 never becomes a survivor itself: while the loop runs,
\* no survivor is NearAndSimilar to a survivor kept before it.
C2_NearSimilarAlwaysAbsorbed ==
    pc = "loop" =>
        \A m1, m2 \in DOMAIN kept :
            m1 < m2 => ~NearAndSimilar(kept[m2], kept[m1])

\* C3: when a survivor absorbs courses[i], it is a survivor within 150 m
\* with similarity >= 0.88; its meta becomes the incoming meta exactly when
\* its own is empty and the incoming one is not; its label, lat and lon,
\* every other survivor and the bucket index stay as they are.
C3_AbsorbFrame ==
    [][AbsorbStep =>
          /\ buckets' = buckets
          /\ \E idx \in DOMAIN kept :
                /\ NearAndSimilar(courses[i], kept[idx])
                /\ \A m \in DOMAIN kept : m # idx => kept'[m] = kept[m]
                /\ kept'[idx][1] = kept[idx][1]
                /\ kept'[idx][2] = kept[idx][2]
                /\ kept'[idx][3] = kept[idx][3]
                /\ kept'[idx][4] =
                      IF kept[idx][4] = <<>> /\ MetaOf(courses[i]) # <<>>
                      THEN MetaOf(courses[i]) ELSE kept[idx][4]
    ]_vars

\* C3 witness: in the first call, after three records, there are two
\* survivors, one of which equals no input record: its empty meta was
\* replaced on absorption, next to another survivor.
C3_Witness ==
    /\ pc = "loop" /\ run = 1 /\ i = 4
    /\ Len(kept) = 2
    /\ \E m \in DOMAIN kept : \A n \in DOMAIN courses : kept[m] # courses[n]

\* C4 (as claimed): the second call, on the first call's result, returns
\* that result unchanged.
C4_Idempotent ==
    (pc = "done" /\ run = 2) => result = first


-----------------------------------------------------------------------------
(* Properties of dedupe_courses_ranked (Policy B) and of both policies     *)

\* C5 (as claimed): the second call, on the same records in any other
\* order, returns the list the first call returned.
C5_OrderIndependent ==
    (pcB = "done" /\ runB = 2) => out = firstB

\* lower(r.label) <= lower(s.label) for consecutive records r, s of rs
SortedByLowerLabel(rs) ==
    \A n \in 1..(Len(rs) - 1) :
        ~StrLess(StrLower(rs[n + 1][1]), StrLower(rs[n][1]))

\* C6: the list either dedup function returns is sorted ascending by
\* lowercased label.
C6_OutputSorted ==
    /\ pc = "done" => SortedByLowerLabel(result)
    /\ pcB = "done" => SortedByLowerLabel(out)

\* C6 witness: a returned list of at least two records in which the plain
\* (case-sensitive) order of two consecutive labels is the opposite of
\* their lowercased order.
C6_Witness ==
    \E rs \in {result, out} :
        /\ (rs = result /\ pc = "done") \/ (rs = out /\ pcB = "done")
        /\ \E n \in 1..(Len(rs) - 1) : StrLess(rs[n + 1][1], rs[n][1])

\* r wins or ties against s: higher rank, or equal rank and an area at
\* least as large.
WinsOrTies(r, s) == r[5] > s[5] \/ (r[5] = s[5] /\ r[6] >= s[6])

\* C7: while a name group is clustered, every record of the group already
\* processed lies within 1000 m of a kept record (the record its cluster
\* will emit) that has a higher rank, or the same rank and an area at least
\* as large; and what a group emits is the kept list.
C7_ClusterKeepsBest ==
    pcB = "greedy" =>
        \A p \in DOMAIN items :
            p < j => \E n \in DOMAIN keptB :
                        /\ _haversine_m(items[p][2], items[p][3],
                                        keptB[n][2], keptB[n][3]) <= 1000000
                        /\ WinsOrTies(keptB[n], items[p])

\* C7 witness: a group in which the rank-3 / area-500 record and the
\* rank-2 / area-10,000,000 record, 556 m apart, were merged and the kept
\* record is the rank-3 one, in a call whose input lists the rank-2 record
\* first.
C7_Witness ==
    /\ pcB = "greedy" /\ j = 3 /\ Len(items) = 2
    /\ Len(keptB) = 1
    /\ keptB[1][5] = 3 /\ keptB[1][6] = 500
    /\ items[2][5] = 2 /\ items[2][6] = 10000000
    /\ records[1][5] = 2

\* C8: no element of extract_courses and no feature given to a Handler
\* callback makes the code raise: each one is added or silently excluded and
\* processing goes on.
C8_NeverRaises == pcX # "raised" /\ pcH # "raised"

\* A record with a non-empty label, a latitude in [-90, 90] and a longitude
\* in [-180, 180] (positions in 1e-5 degrees)
ValidRecord(r) ==
    /\ r[1] # <<>>
    /\ -9000000 <= r[2] /\ r[2] <= 9000000
    /\ -18000000 <= r[3] /\ r[3] <= 18000000

\* C9: every record collected for a dedup function (raw of extract_courses,
\* Handler.records) has a non-empty label and a position inside the WGS84
\* ranges.
C9_RecordsInRange ==
    /\ \A n \in DOMAIN raw : ValidRecord(raw[n])
    /\ \A n \in DOMAIN hrecords : ValidRecord(hrecords[n])

\* The geometry rank of a feature: point 1, way polygon (a way, or an area
\* made from a way) 2, relation 3
GeomRank(f) ==
    CASE f.kind = "node" -> 1
      [] f.kind = "way" -> 2
      [] f.kind = "area" -> IF f.from_way THEN 2 ELSE 3

\* The area of a feature's geometry, m2: 0 for a point or an open way, the
\* ring's area for a closed way, the sum of the outer rings for an area
GeomArea(f) ==
    CASE f.kind = "node" -> 0
      [] f.kind = "way" ->
            LET cs == ValidCoords(f.nodes, 1)
            IN  IF cs[1] = cs[Len(cs)] /\ Len(cs) >= 4
                THEN _polygon_centroid_area_m2(cs).area ELSE 0
      [] f.kind = "area" ->
            LargestRing(f.coords, 1, [best_area |-> 0, best_lat |-> PyNone,
                                      best_lon |-> PyNone, total_area |-> 0]).total_area

\* An exclusion tag value is present.
ExclusionValue(tags) ==
    \/ tags.leisure = "miniature_golf"
    \/ tags.golf \in {"driving_range", "practice", "putting_green", "hole", "tee", "green"}

\* The rule table: 0 for reject, else the rank
RuleTable(tags, rank, area_m2) ==
    IF ExclusionValue(tags) THEN 0
    ELSE IF tags.leisure = "golf_course" \/ tags.golf = "course" THEN rank
    ELSE IF /\ tags.sport = "golf"
            /\ tags.leisure \in {"pitch", "track", "park"} \/ tags.landuse = "recreation_ground"
            /\ rank >= 2
            /\ area_m2 >= 20000
         THEN rank
    ELSE 0

\* The feature has a name and a geometry: a node, a way with at least three
\* located nodes, an area whose multipolygon has coordinates
Classifiable(f) ==
    /\ get_name(f.tags) # <<>>
    /\ f.kind = "way" => Len(ValidCoords(f.nodes, 1)) >= 3
    /\ f.kind = "area" => f.mp_ok /\ f.coords # <<>>

\* C10: for the feature of the last callback, the handlers reach a decision
\* whenever the feature has a name and a geometry, the decision is the rule
\* table's (reject on an exclusion value whatever else is tagged; else
\* strong tagging at rank 1, 2 or 3; else weak tagging only at rank >= 2
\* with at least 20000 m2; else reject), a decision reached without a
\* geometry is the rejection of an exclusion value, and a record is appended
\* only with the decided rank.
C10_ClassifierAgreesWithTable ==
    last.f.kind # "none" =>
        /\ Classifiable(last.f) =>
              /\ last.decision # -1
              /\ last.decision = RuleTable(last.f.tags, GeomRank(last.f), GeomArea(last.f))
        /\ (last.decision # -1 /\ ~Classifiable(last.f)) =>
              /\ get_name(last.f.tags) # <<>>
              /\ last.decision = 0
              /\ ExclusionValue(last.f.tags)
        /\ last.res = "add" =>
              /\ last.decision \in 1..3
              /\ hrecords[Len(hrecords)][5] = last.decision

\* C10 witness: the callback for a closed way tagged sport=golf,
\* leisure=pitch (no exclusion value, no strong tag) whose ring measures
\* 12364 m2, below the threshold, decided to reject.
C10_Witness ==
    /\ last.f.kind = "way"
    /\ last.f.tags.sport = "golf" /\ last.f.tags.leisure = "pitch"
    /\ last.f.tags.golf = ""
    /\ GeomArea(last.f) = 12364
    /\ last.decision = 0
    /\ last.res = "drop"

\* Centroid and area of the outer ring of each polygon of a multipolygon
RingData(coords) ==
    [n \in DOMAIN coords |->
        IF coords[n] = <<>> \/ coords[n][1] = <<>> THEN [ok |-> FALSE, area |-> 0]
        ELSE _polygon_centroid_area_m2(coords[n][1])]

\* The polygons whose outer ring yields a valid centroid
ValidRings(coords) == {n \in DOMAIN coords : RingData(coords)[n].ok}

\* The earliest of the valid rings with the largest area
LargestValidRing(coords) ==
    CHOOSE n \in ValidRings(coords) :
        \A k \in ValidRings(coords) :
            \/ RingData(coords)[k].area < RingData(coords)[n].area
            \/ RingData(coords)[k].area = RingData(coords)[n].area /\ n <= k

RECURSIVE SumAreas(_, _)
SumAreas(data, n) == IF n > Len(data) THEN 0 ELSE data[n].area + SumAreas(data, n + 1)

\* C11: when Handler.area accepts a feature some outer ring of which yields a
\* valid centroid, it appends a record whose position is the centroid of the
\* largest such ring (the earliest on a tie), never the first-vertex
\* fallback, and whose area is the sum of the outer-ring areas; this
\* includes rings of area 0, whose centroid is the mean of their vertices.
C11_LargestRingCentroid ==
    (/\ last.f.kind = "area"
     /\ last.decision \in {2, 3}
     /\ ValidRings(last.f.coords) # {}) =>
        /\ last.res = "add"
        /\ LET data == RingData(last.f.coords)
               best == data[LargestValidRing(last.f.coords)]
               rec  == hrecords[Len(hrecords)]
           IN  /\ rec[2] = round5(best.lat)
               /\ rec[3] = round5(best.lon)
               /\ rec[6] = SumAreas(data, 1)

\* C12: dedupe_courses on ["Pine Valley GC", 39.80000, -74.93000, "NJ"]
\* followed by ["Pine Valley Golf Club", 39.80010, -74.93005, ""] returns
\* exactly one record, with meta "NJ".
C12_PineValleyMerged ==
    (/\ pc = "done"
     /\ run = 1
     /\ src = <<Rec(NmPineValleyGC, PosE0, MetaNJ),
                Rec(NmPineValleyGolfClub, PosE1, NoMeta)>>) =>
        /\ Len(result) = 1
        /\ result[1][4] = MetaNJ

\* Every two records of rs with the same name key are more than 1000 m
\* apart.
SameNameFarApart(rs) ==
    \A p, q \in DOMAIN rs :
        (p < q /\ _name_key(rs[p][1]) = _name_key(rs[q][1])) =>
            _haversine_m(rs[p][2], rs[p][3], rs[q][2], rs[q][3]) > 1000000

\* C14: at every step of dedupe_courses_ranked the survivors kept for the
\* current name group are pairwise more than 1000 m apart, and no two
\* records of the output with the same name key are within 1000 m of each
\* other.
C14_SurvivorsFarApart ==
    /\ \A p, q \in DOMAIN keptB :
          p < q => _haversine_m(keptB[p][2], keptB[p][3],
                                keptB[q][2], keptB[q][3]) > 1000000
    /\ SameNameFarApart(out)

\* C14 witness: a returned output with two records of the name key "pine",
\* from a group of three records of which one was merged into a survivor.
C14_Witness ==
    /\ pcB = "done"
    /\ Len(records) = 3
    /\ \A n \in DOMAIN records : _name_key(records[n][1]) = <<"p", "i", "n", "e">>
    /\ Len(out) = 2

\* A call that entered the loops returns or raises (checked under
\* FairSpecQ).
TerminatesQ == (pcQ = "loop") ~> (pcQ \in {"returned", "raised"})

\* C13: a call of overpass_query that goes to the network makes its
\* requests in the listed order, at most 4 per endpoint and 12 in all;
\* once a response has parsed as JSON the call has returned it, written to
\* the cache file, and made no later request; RuntimeError is raised only
\* after 12 requests none of which parsed; and a call that found the cache
\* file with use_cache true returns the cached data without a request.
C13_ReturnsAtFirstParsedResponse ==
    /\ posts <= NumEndpoints * LastAttempt
    /\ pcQ = "loop" => posts = (endpoint - 1) * LastAttempt + (attempt - 1)
    /\ parsed # 0 =>
          /\ pcQ = "returned" /\ outcomeQ = "fetched"
          /\ posts = parsed
          /\ cache = "valid"
    /\ outcomeQ = "RuntimeError" => posts = NumEndpoints * LastAttempt /\ parsed = 0
    /\ (pcQ \in {"returned", "raised"} /\ posts = 0) => outcomeQ = "cached"
    /\ outcomeQ = "cached" => posts = 0 /\ use_cache

=============================================================================
